---- MODULE Spec2Model ----
(***************************************************************************)
(* RAP_disjoint (src/src/Alg_disjoint.py): breakpoint search over          *)
(* partition trunks for  min sum_i (x_i + b_i)^2  s.t.  sum_i x_i = R,     *)
(* x_i in a union of m disjoint intervals.                                 *)
(*                                                                         *)
(* Python lists are arrays indexed from 0: functions with domain 0..k-1.   *)
(* Python floats are exact rationals <<num, den>> with den > 0;            *)
(* math.inf is <<1, 0>> and -math.inf is <<-1, 0>>.  All inputs are        *)
(* integers, so every float the code computes is an integer or the         *)
(* quotient of two small integers.                                         *)
(***************************************************************************)
EXTENDS Integers, Sequences, FiniteSets, TLC

VARIABLES R, b, lower_fixed, upper_fixed, lower_var, upper_var,
          pc, outcome,
          list_partitions, part_i, listobj, partition_full,
          current_best_obj, current_best_partition, current_best_mult,
          lower_bounds, upper_bounds, lower_breakpoints, upper_breakpoints,
          HELP_var_Bounded, HELP_var_Free, HELP_var_num_free, HELP_var_value_Bound,
          heap_lower_BPs, heap_upper_BPs, HELP_num_lower_heap, HELP_num_upper_heap,
          HELP_feasible_check_lower, HELP_feasible_check_upper,
          Candidate_BP_lower, Candidate_BP_upper, Opt_mult, Obj_value,
          Final_solution

inputs == <<R, b, lower_fixed, upper_fixed, lower_var, upper_var>>

best == <<current_best_obj, current_best_partition, current_best_mult>>

arrays == <<lower_bounds, upper_bounds, lower_breakpoints, upper_breakpoints>>

totals == <<HELP_var_Bounded, HELP_var_Free, HELP_var_num_free, HELP_var_value_Bound>>

heaps == <<heap_lower_BPs, heap_upper_BPs, HELP_num_lower_heap, HELP_num_upper_heap>>

feas == <<HELP_feasible_check_lower, HELP_feasible_check_upper>>

cands == <<Candidate_BP_lower, Candidate_BP_upper>>

vars == <<R, b, lower_fixed, upper_fixed, lower_var, upper_var,
          pc, outcome,
          list_partitions, part_i, listobj, partition_full,
          current_best_obj, current_best_partition, current_best_mult,
          lower_bounds, upper_bounds, lower_breakpoints, upper_breakpoints,
          HELP_var_Bounded, HELP_var_Free, HELP_var_num_free, HELP_var_value_Bound,
          heap_lower_BPs, heap_upper_BPs, HELP_num_lower_heap, HELP_num_upper_heap,
          HELP_feasible_check_lower, HELP_feasible_check_upper,
          Candidate_BP_lower, Candidate_BP_upper, Opt_mult, Obj_value,
          Final_solution>>

(***************************************************************************)
(* Bounds of the checked instances.                                        *)
(***************************************************************************)
MaxN == 3

MaxVal == 3

MaxShift == 1

MaxM == 4

(***************************************************************************)
(* Python lists and numbers.                                               *)
(***************************************************************************)
Size(a) == Cardinality(DOMAIN a)

\* a[k] with Python's negative indices
At(a, k) == IF k < 0 THEN a[k + Size(a)] ELSE a[k]

Arr(s) == [i \in 0..(Len(s) - 1) |-> s[i + 1]]

Const(n, v) == [i \in 0..(n - 1) |-> v]

RECURSIVE SumTo(_, _)
SumTo(a, k) == IF k < 0 THEN 0 ELSE a[k] + SumTo(a, k - 1)

\* sum(a)
Sum(a) == SumTo(a, Size(a) - 1)

Inf == <<1, 0>>

NegInf == <<-1, 0>>

\* None, for a float and for a reference to a list object
None == <<0, 0>>

NoList == 0

Num(v) == <<v, 1>>

\* p / q for q # 0
Quot(p, q) == IF q < 0 THEN <<-p, -q>> ELSE <<p, q>>

\* x < y on floats
Less(x, y) == IF x[2] = 0 /\ y[2] = 0 THEN x[1] < y[1] ELSE x[1] * y[2] < y[1] * x[2]

\* x == y on finite floats
Equal(x, y) == x[1] * y[2] = y[1] * x[2]

\* min(x, y) and max(x, y) as Python evaluates them: the first argument wins a tie
PyMin(x, y) == IF Less(y, x) THEN y ELSE x

PyMax(x, y) == IF Less(x, y) THEN y ELSE x

\* heap entries [breakpoint, index, tag] compare as lists
EntryLess(e, f) ==
    \/ e[1] < f[1]
    \/ e[1] = f[1] /\ e[2] < f[2]
    \/ e[1] = f[1] /\ e[2] = f[2] /\ e[3] < f[3]

\* heap[0]
Top(heap) == CHOOSE e \in heap : \A f \in heap : f = e \/ EntryLess(e, f)

num_var == Size(b)

num_intervals == Size(lower_fixed) + 1

(***************************************************************************)
(* itertools.combinations_with_replacement(range(-1, n), r)                *)
(***************************************************************************)
NonDecreasing(t) == \A i, j \in DOMAIN t : i <= j => t[i] <= t[j]

TupleLess(s, t) ==
    \E k \in DOMAIN s : s[k] < t[k] /\ \A i \in DOMAIN s : i < k => s[i] = t[i]

RECURSIVE SortTuples(_)
SortTuples(S) ==
    IF S = {} THEN << >>
    ELSE LET s == CHOOSE s \in S : \A t \in S : t = s \/ TupleLess(s, t)
         IN  <<s>> \o SortTuples(S \ {s})

CombinationsRaisesBelowMinusOne(r) == r < -1

\* ValueError: r must be non-negative
CombinationsRaises(r) == r < 0

combinations_with_replacement(n, r) ==
    IF r < 0 THEN << >>
    ELSE SortTuples({t \in [0..(r - 1) -> (-1)..(n - 1)] : NonDecreasing(t)})

(***************************************************************************)
(* Bound arrays of a partition.  Python runs the loops in order, so a      *)
(* later loop overwrites an earlier one, and a negative index counts from  *)
(* the end of the list.                                                    *)
(***************************************************************************)
\* for i in range(lo, hi): a[i] = vals[i]
AssignRange(a, lo, hi, vals) ==
    LET n == Size(a)
        hit(k) == {i \in lo..(hi - 1) : (IF i < 0 THEN i + n ELSE i) = k}
    IN  [k \in DOMAIN a |-> IF hit(k) = {} THEN a[k]
                             ELSE vals[CHOOSE i \in hit(k) : \A i2 \in hit(k) : i2 <= i]]

\* the same value v at every index of range(lo, hi)
Same(lo, hi, v) == [i \in lo..(hi - 1) |-> v]

\* for j in range(1, num_intervals - 2): for i in range(p[j-1] + off, p[j] + off): a[i] = fixed[j]
RECURSIVE MiddleLoop(_, _, _, _, _)
MiddleLoop(a, p, fixed, j, off) ==
    IF j > num_intervals - 3 THEN a
    ELSE MiddleLoop(AssignRange(a, p[j - 1] + off, p[j] + off,
                                Same(p[j - 1] + off, p[j] + off, fixed[j])),
                    p, fixed, j + 1, off)

\* lower_fixed[j-1] of lines 74 and 248, by j
MiddleLower == [j \in 1..(num_intervals - 3) |-> lower_fixed[j - 1]]

\* upper_fixed[j] of lines 83 and 257, by j
MiddleUpper == [j \in 1..(num_intervals - 3) |-> upper_fixed[j]]

\* lines 69-76: lower bounds of the trunk p
SweepLower(p) ==
    LET a1 == AssignRange(Const(num_var, 0), 0, p[0] + 1, lower_var)
        a2 == MiddleLoop(a1, p, MiddleLower, 1, 1)
        lo == p[num_intervals - 2] + 1
    IN  AssignRange(a2, lo, num_var, Same(lo, num_var, lower_fixed[num_intervals - 2]))

\* lines 78-85: upper bounds of the trunk p
SweepUpper(p) ==
    LET a1 == AssignRange(Const(num_var, 0), 0, p[0] + 1, Same(0, p[0] + 1, upper_fixed[0]))
        a2 == MiddleLoop(a1, p, MiddleUpper, 1, 1)
    IN  AssignRange(a2, p[num_intervals - 2] + 1, num_var, upper_var)

\* lines 243-250: lower bounds rebuilt from the best partition
FinalLower(p) ==
    LET a1 == AssignRange(Const(num_var, 0), 0, p[0], lower_var)
        a2 == MiddleLoop(a1, p, MiddleLower, 1, 0)
        lo == p[num_intervals - 2]
    IN  AssignRange(a2, lo, num_var, Same(lo, num_var, lower_fixed[num_intervals - 2]))

\* lines 252-259: upper bounds rebuilt from the best partition
FinalUpper(p) ==
    LET a1 == AssignRange(Const(num_var, 0), 0, p[0], Same(0, p[0], upper_fixed[0]))
        a2 == MiddleLoop(a1, p, MiddleUpper, 1, 0)
    IN  AssignRange(a2, p[num_intervals - 2], num_var, upper_var)

\* lines 88-89, 262-263
Breakpoints(bounds) == [i \in 0..(num_var - 1) |-> bounds[i] + b[i]]

\* lines 98-99
InitialHeap(bps) == {<<bps[i], i, 0>> : i \in 0..(num_var - 1)}

\* sum([math.pow(bps[i], 2) ...]), line 95
SumSquares(bps) == Sum([i \in DOMAIN bps |-> bps[i] * bps[i]])

(***************************************************************************)
(* Instances.  b is sorted non-increasingly; the intervals are nested:     *)
(* lower_var[i] <= upper_fixed[0] < lower_fixed[0] <= upper_fixed[1] < ... *)
(* < lower_fixed[m-2] <= upper_var[i].  lower_fixed and upper_fixed have   *)
(* the same length, which may be 0 (a single interval).                    *)
(***************************************************************************)
NonIncreasing(t) == \A i, j \in DOMAIN t : i <= j => t[i] >= t[j]

\* interleaved u_1 < l_2 <= u_2 < l_3 <= ... < l_m, as one array of length 2k
FixedPoints(k) ==
    {f \in [0..(2 * k - 1) -> 0..MaxVal] :
        \A i \in 0..(2 * k - 2) : IF i % 2 = 0 THEN f[i] < f[i + 1] ELSE f[i] <= f[i + 1]}

Shifts(n) == {t \in [0..(n - 1) -> 0..MaxShift] : NonIncreasing(t)}

InstancesOf(n, lf, uf, lvs, uvs) ==
    UNION { UNION { { [R |-> r, b |-> bb, lower_fixed |-> lf, upper_fixed |-> uf,
                       lower_var |-> Const(n, lv), upper_var |-> uv] :
                         r \in (-1)..(Sum(uv) + 1), bb \in Shifts(n) }
                    : uv \in [0..(n - 1) -> uvs] }
            : lv \in lvs }

Instances ==
    UNION { UNION { LET uf == [j \in 0..(k - 1) |-> f[2 * j]]
                        lf == [j \in 0..(k - 1) |-> f[2 * j + 1]]
                    IN  UNION { InstancesOf(n, lf, uf,
                                    IF k = 0 THEN {0} ELSE 0..uf[0],
                                    IF k = 0 THEN {MaxVal} ELSE lf[k - 1]..MaxVal)
                                : n \in 1..MaxN }
                    : f \in FixedPoints(k) }
            : k \in 0..(MaxM - 1) }

\* the scenario n=3, m=2 of the specification, with lower_fixed given as []
Scenario ==
    [R |-> 12, b |-> Const(3, 0), lower_fixed |-> << >>, upper_fixed |-> Arr(<<5>>),
     lower_var |-> Const(3, 0), upper_var |-> Const(3, 10)]

Init ==
    /\ \E inst \in Instances \cup {Scenario} :
          /\ R = inst.R
          /\ b = inst.b
          /\ lower_fixed = inst.lower_fixed
          /\ upper_fixed = inst.upper_fixed
          /\ lower_var = inst.lower_var
          /\ upper_var = inst.upper_var
    /\ pc = "start"
    /\ outcome = "running"
    /\ list_partitions = << >>
    /\ part_i = 0
    /\ listobj = << >>
    /\ partition_full = NoList
    /\ current_best_obj = Inf
    /\ current_best_partition = NoList
    /\ current_best_mult = None
    /\ lower_bounds = << >>
    /\ upper_bounds = << >>
    /\ lower_breakpoints = << >>
    /\ upper_breakpoints = << >>
    /\ HELP_var_Bounded = 0
    /\ HELP_var_Free = 0
    /\ HELP_var_num_free = 0
    /\ HELP_var_value_Bound = 0
    /\ heap_lower_BPs = {}
    /\ heap_upper_BPs = {}
    /\ HELP_num_lower_heap = 0
    /\ HELP_num_upper_heap = 0
    /\ HELP_feasible_check_lower = 0
    /\ HELP_feasible_check_upper = 0
    /\ Candidate_BP_lower = Inf
    /\ Candidate_BP_upper = Inf
    /\ Opt_mult = None
    /\ Obj_value = None
    /\ Final_solution = << >>

(***************************************************************************)
(* The list object partition_full is bound to, and its last element.       *)
(***************************************************************************)
PF == listobj[partition_full]

Cursor == At(PF, -1)

\* lines 49-58
Start ==
    /\ pc = "start"
    /\ IF CombinationsRaises(num_intervals - 2)
         THEN /\ pc' = "done"
              /\ outcome' = "ValueError"
              /\ UNCHANGED list_partitions
         ELSE /\ pc' = "for"
              /\ list_partitions' = combinations_with_replacement(num_var, num_intervals - 2)
              /\ UNCHANGED outcome
    /\ current_best_obj' = Inf
    /\ current_best_partition' = NoList
    /\ current_best_mult' = None
    /\ UNCHANGED <<inputs, part_i, listobj, partition_full, arrays, totals, heaps, feas,
                   cands, Opt_mult, Obj_value, Final_solution>>

\* lines 62-66: list(partition) with its last element repeated, or [-1]
SeedPartition(partition) ==
    IF Size(partition) = 0 THEN Arr(<<-1>>)
    ELSE [k \in 0..Size(partition) |->
             IF k < Size(partition) THEN partition[k] ELSE At(partition, -1)]

\* lines 61-106: the next trunk; partition_full is bound to a new list object,
\* and a list object that nothing refers to any more is freed
NextPartition ==
    /\ pc = "for"
    /\ part_i < Len(list_partitions)
    /\ LET id == part_i + 1
           p  == SeedPartition(list_partitions[id])
           lb == SweepLower(p)
           ub == SweepUpper(p)
           kept == {id} \cup (IF current_best_partition = NoList THEN {}
                              ELSE {current_best_partition})
       IN  /\ part_i' = id
           /\ partition_full' = id
           /\ listobj' = [k \in kept |-> IF k = id THEN p ELSE listobj[k]]
           /\ lower_bounds' = lb
           /\ upper_bounds' = ub
           /\ lower_breakpoints' = Breakpoints(lb)
           /\ upper_breakpoints' = Breakpoints(ub)
           /\ HELP_var_Bounded' = Sum(lb)
           /\ HELP_var_Free' = 0
           /\ HELP_var_num_free' = 0
           /\ HELP_var_value_Bound' = SumSquares(Breakpoints(lb))
           /\ heap_lower_BPs' = InitialHeap(Breakpoints(lb))
           /\ heap_upper_BPs' = InitialHeap(Breakpoints(ub))
           /\ HELP_num_lower_heap' = num_var
           /\ HELP_num_upper_heap' = num_var
           /\ HELP_feasible_check_lower' = Sum(lb)
           /\ HELP_feasible_check_upper' = Sum(ub)
    /\ pc' = "while"
    /\ UNCHANGED <<inputs, outcome, list_partitions, best, cands, Opt_mult, Obj_value,
                   Final_solution>>

\* line 61: the trunks are exhausted
LoopDone ==
    /\ pc = "for"
    /\ part_i = Len(list_partitions)
    /\ pc' = "final"
    /\ UNCHANGED <<inputs, outcome, list_partitions, part_i, listobj, partition_full, best,
                   arrays, totals, heaps, feas, cands, Opt_mult, Obj_value, Final_solution>>

\* lines 109-111
RejectWindow ==
    /\ pc = "while"
    /\ Cursor < num_var
    /\ HELP_feasible_check_lower > R
    /\ Opt_mult' = NegInf
    /\ pc' = "update"
    /\ UNCHANGED <<inputs, outcome, list_partitions, part_i, listobj, partition_full, best,
                   arrays, totals, heaps, feas, cands, Obj_value, Final_solution>>

\* lines 109, 112-113: the cursor loop ends
BreakTrunk ==
    /\ pc = "while"
    /\ \/ Cursor >= num_var
       \/ HELP_feasible_check_lower <= R /\ HELP_feasible_check_upper < R
    /\ pc' = "for"
    /\ UNCHANGED <<inputs, outcome, list_partitions, part_i, listobj, partition_full, best,
                   arrays, totals, heaps, feas, cands, Opt_mult, Obj_value, Final_solution>>

\* lines 109, 114-116
BeginScan ==
    /\ pc = "while"
    /\ Cursor < num_var
    /\ HELP_feasible_check_lower <= R
    /\ HELP_feasible_check_upper >= R
    /\ pc' = "scan_lower"
    /\ UNCHANGED <<inputs, outcome, list_partitions, part_i, listobj, partition_full, best,
                   arrays, totals, heaps, feas, cands, Opt_mult, Obj_value, Final_solution>>

\* lines 121-124, 137-140
HELP_part_bound == IF Size(PF) = 1 THEN -1 ELSE At(PF, -2)

\* line 125
StaleLower(e) == HELP_part_bound < e[2] /\ e[2] < Cursor /\ e[3] = 0

\* line 141
StaleUpper(e) == HELP_part_bound < e[2] /\ e[2] <= Cursor /\ e[3] = 0

\* lines 118-127: the top of the lower heap is popped unused
DiscardLower ==
    /\ pc = "scan_lower"
    /\ HELP_num_lower_heap > 0
    /\ StaleLower(Top(heap_lower_BPs))
    /\ Candidate_BP_lower' = Num(Top(heap_lower_BPs)[1])
    /\ heap_lower_BPs' = heap_lower_BPs \ {Top(heap_lower_BPs)}
    /\ HELP_num_lower_heap' = HELP_num_lower_heap - 1
    /\ UNCHANGED <<inputs, pc, outcome, list_partitions, part_i, listobj, partition_full, best,
                   arrays, totals, heap_upper_BPs, HELP_num_upper_heap, feas,
                   Candidate_BP_upper, Opt_mult, Obj_value, Final_solution>>

\* lines 118-120, 128-132: the lower candidate is fixed
FoundLower ==
    /\ pc = "scan_lower"
    /\ IF HELP_num_lower_heap > 0
         THEN /\ ~StaleLower(Top(heap_lower_BPs))
              /\ Candidate_BP_lower' = Num(Top(heap_lower_BPs)[1])
         ELSE Candidate_BP_lower' = Inf
    /\ pc' = "scan_upper"
    /\ UNCHANGED <<inputs, outcome, list_partitions, part_i, listobj, partition_full, best,
                   arrays, totals, heaps, feas, Candidate_BP_upper, Opt_mult, Obj_value,
                   Final_solution>>

\* lines 134-143: the top of the upper heap is popped unused
DiscardUpper ==
    /\ pc = "scan_upper"
    /\ HELP_num_upper_heap > 0
    /\ StaleUpper(Top(heap_upper_BPs))
    /\ Candidate_BP_upper' = Num(Top(heap_upper_BPs)[1])
    /\ heap_upper_BPs' = heap_upper_BPs \ {Top(heap_upper_BPs)}
    /\ HELP_num_upper_heap' = HELP_num_upper_heap - 1
    /\ UNCHANGED <<inputs, pc, outcome, list_partitions, part_i, listobj, partition_full, best,
                   arrays, totals, heap_lower_BPs, HELP_num_lower_heap, feas,
                   Candidate_BP_lower, Opt_mult, Obj_value, Final_solution>>

\* lines 134-136, 144-148: the upper candidate is fixed
FoundUpper ==
    /\ pc = "scan_upper"
    /\ IF HELP_num_upper_heap > 0
         THEN /\ ~StaleUpper(Top(heap_upper_BPs))
              /\ Candidate_BP_upper' = Num(Top(heap_upper_BPs)[1])
         ELSE Candidate_BP_upper' = Inf
    /\ pc' = "select"
    /\ UNCHANGED <<inputs, outcome, list_partitions, part_i, listobj, partition_full, best,
                   arrays, totals, heaps, feas, Candidate_BP_lower, Opt_mult, Obj_value,
                   Final_solution>>

\* line 151
Candidate_BP == PyMin(Candidate_BP_lower, Candidate_BP_upper)

\* lines 152, 154, 158: how HELP_resource compares with R.  With an infinite
\* candidate the product is inf, nan or -inf as HELP_var_num_free is positive,
\* zero or negative; nan and -inf fail both comparisons.
ResourceVsR ==
    IF Candidate_BP[2] = 0
      THEN IF HELP_var_num_free > 0 THEN "greater" ELSE "neither"
      ELSE LET HELP_resource ==
                   HELP_var_Bounded + HELP_var_num_free * Candidate_BP[1] - HELP_var_Free
           IN  IF HELP_resource = R THEN "equal"
               ELSE IF HELP_resource > R THEN "greater" ELSE "neither"

\* HELP_var_value_Bound + HELP_var_num_free * math.pow(mult, 2), lines 156, 160
Objective(mult) ==
    <<HELP_var_value_Bound * mult[2] * mult[2] + HELP_var_num_free * mult[1] * mult[1],
      mult[2] * mult[2]>>

\* lines 154-157
SelectExact ==
    /\ pc = "select"
    /\ ResourceVsR = "equal"
    /\ Opt_mult' = Candidate_BP
    /\ Obj_value' = Objective(Candidate_BP)
    /\ pc' = "track"
    /\ UNCHANGED <<inputs, outcome, list_partitions, part_i, listobj, partition_full, best,
                   arrays, totals, heaps, feas, cands, Final_solution>>

\* lines 158-161
SelectSolve ==
    /\ pc = "select"
    /\ ResourceVsR = "greater"
    /\ IF HELP_var_num_free = 0
         THEN /\ outcome' = "ZeroDivisionError"
              /\ pc' = "done"
              /\ UNCHANGED <<Opt_mult, Obj_value>>
         ELSE LET mult == Quot(R - HELP_var_Bounded + HELP_var_Free, HELP_var_num_free)
              IN  /\ Opt_mult' = mult
                  /\ Obj_value' = Objective(mult)
                  /\ pc' = "track"
                  /\ UNCHANGED outcome
    /\ UNCHANGED <<inputs, list_partitions, part_i, listobj, partition_full, best,
                   arrays, totals, heaps, feas, cands, Final_solution>>

\* lines 162-170: the owner of the lower candidate becomes free
PassLower ==
    /\ pc = "select"
    /\ ResourceVsR = "neither"
    /\ Less(Candidate_BP_lower, Candidate_BP_upper)
    /\ LET HELP_index == Top(heap_lower_BPs)[2]
       IN  /\ HELP_var_Bounded' = HELP_var_Bounded - lower_bounds[HELP_index]
           /\ HELP_var_Free' = HELP_var_Free + b[HELP_index]
           /\ HELP_var_num_free' = HELP_var_num_free + 1
           /\ HELP_var_value_Bound' = HELP_var_value_Bound
                 - (lower_bounds[HELP_index] + b[HELP_index])
                   * (lower_bounds[HELP_index] + b[HELP_index])
    /\ heap_lower_BPs' = heap_lower_BPs \ {Top(heap_lower_BPs)}
    /\ HELP_num_lower_heap' = HELP_num_lower_heap - 1
    /\ pc' = "scan_lower"
    /\ UNCHANGED <<inputs, outcome, list_partitions, part_i, listobj, partition_full, best,
                   arrays, heap_upper_BPs, HELP_num_upper_heap, feas, cands, Opt_mult,
                   Obj_value, Final_solution>>

\* lines 162, 171-178: the owner of the upper candidate is pinned to its upper
\* bound; heap_upper_BPs[0] of an empty heap raises IndexError
PassUpper ==
    /\ pc = "select"
    /\ ResourceVsR = "neither"
    /\ ~Less(Candidate_BP_lower, Candidate_BP_upper)
    /\ IF heap_upper_BPs = {}
         THEN /\ outcome' = "IndexError"
              /\ pc' = "done"
              /\ UNCHANGED <<totals, heap_upper_BPs, HELP_num_upper_heap>>
         ELSE /\ LET HELP_index == Top(heap_upper_BPs)[2]
                 IN  /\ HELP_var_Bounded' = HELP_var_Bounded + upper_bounds[HELP_index]
                     /\ HELP_var_Free' = HELP_var_Free - b[HELP_index]
                     /\ HELP_var_num_free' = HELP_var_num_free - 1
                     /\ HELP_var_value_Bound' = HELP_var_value_Bound
                           + (upper_bounds[HELP_index] + b[HELP_index])
                             * (upper_bounds[HELP_index] + b[HELP_index])
              /\ heap_upper_BPs' = heap_upper_BPs \ {Top(heap_upper_BPs)}
              /\ HELP_num_upper_heap' = HELP_num_upper_heap - 1
              /\ pc' = "scan_lower"
              /\ UNCHANGED outcome
    /\ UNCHANGED <<inputs, list_partitions, part_i, listobj, partition_full, best,
                   arrays, heap_lower_BPs, HELP_num_lower_heap, feas, cands, Opt_mult,
                   Obj_value, Final_solution>>

\* lines 181-184: current_best_partition is bound to the list object itself
Track ==
    /\ pc = "track"
    /\ IF Less(Obj_value, current_best_obj)
         THEN /\ current_best_obj' = Obj_value
              /\ current_best_partition' = partition_full
              /\ current_best_mult' = Opt_mult
         ELSE UNCHANGED best
    /\ pc' = "update"
    /\ UNCHANGED <<inputs, outcome, list_partitions, part_i, listobj, partition_full,
                   arrays, totals, heaps, feas, cands, Opt_mult, Obj_value, Final_solution>>

\* lines 194-202, 225-239: where mult lies relative to the breakpoints of a variable
Regime(mult, lower_bp, upper_bp) ==
    IF Less(mult, Num(lower_bp)) THEN "low"
    ELSE IF Less(Num(lower_bp), mult) /\ Less(mult, Num(upper_bp)) THEN "free"
    ELSE "high"

Square(v) == v * v

\* lines 187-239: the cursor advances; variable HELP_index moves to the window
Update ==
    /\ pc = "update"
    /\ listobj' = [listobj EXCEPT ![partition_full] = [PF EXCEPT ![Size(PF) - 1] = @ + 1]]
    /\ LET HELP_index == Cursor + 1
       IN  IF HELP_index >= num_var
             THEN /\ pc' = "for"
                  /\ UNCHANGED <<arrays, totals, heaps, feas>>
             ELSE LET old == Regime(Opt_mult, lower_breakpoints[HELP_index],
                                    upper_breakpoints[HELP_index])
                      lo == IF Size(lower_fixed) = 1 THEN lower_var[HELP_index]
                            ELSE At(lower_fixed, -2)
                      up == At(upper_fixed, -1)
                      new == Regime(Opt_mult, lo + b[HELP_index], up + b[HELP_index])
                      Bounded1 == CASE old = "low" -> HELP_var_Bounded - lower_bounds[HELP_index]
                                    [] old = "free" -> HELP_var_Bounded
                                    [] old = "high" -> HELP_var_Bounded - upper_bounds[HELP_index]
                      value1 == CASE old = "low" -> HELP_var_value_Bound
                                                     - Square(lower_bounds[HELP_index] + b[HELP_index])
                                  [] old = "free" -> HELP_var_value_Bound
                                  [] old = "high" -> HELP_var_value_Bound
                                                     - Square(upper_bounds[HELP_index] + b[HELP_index])
                      Free1 == IF old = "free" THEN HELP_var_Free - b[HELP_index] ELSE HELP_var_Free
                      num1 == IF old = "free" THEN HELP_var_num_free - 1 ELSE HELP_var_num_free
                  IN  /\ pc' = "while"
                      /\ HELP_feasible_check_lower' =
                             HELP_feasible_check_lower - lower_bounds[HELP_index] + lo
                      /\ HELP_feasible_check_upper' =
                             HELP_feasible_check_upper - upper_bounds[HELP_index] + up
                      /\ lower_breakpoints' = [lower_breakpoints EXCEPT ![HELP_index] = lo + b[HELP_index]]
                      /\ upper_breakpoints' = [upper_breakpoints EXCEPT ![HELP_index] = up + b[HELP_index]]
                      /\ lower_bounds' = [lower_bounds EXCEPT ![HELP_index] = lo]
                      /\ upper_bounds' = [upper_bounds EXCEPT ![HELP_index] = up]
                      /\ HELP_var_Bounded' = CASE new = "low" -> Bounded1 + lo
                                               [] new = "free" -> Bounded1
                                               [] new = "high" -> Bounded1 + up
                      /\ HELP_var_value_Bound' =
                             CASE new = "low" -> value1 + Square(lo + b[HELP_index])
                               [] new = "free" -> value1
                               [] new = "high" -> value1 + Square(up + b[HELP_index])
                      /\ HELP_var_Free' = IF new = "free" THEN Free1 + b[HELP_index] ELSE Free1
                      /\ HELP_var_num_free' = IF new = "free" THEN num1 + 1 ELSE num1
                      /\ heap_lower_BPs' =
                             IF new = "low"
                               THEN heap_lower_BPs \cup {<<lo + b[HELP_index], HELP_index, 1>>}
                               ELSE heap_lower_BPs
                      /\ HELP_num_lower_heap' =
                             IF new = "low" THEN HELP_num_lower_heap + 1 ELSE HELP_num_lower_heap
                      /\ heap_upper_BPs' =
                             IF new \in {"low", "free"}
                               THEN heap_upper_BPs \cup {<<up + b[HELP_index], HELP_index, 1>>}
                               ELSE heap_upper_BPs
                      /\ HELP_num_upper_heap' =
                             IF new \in {"low", "free"} THEN HELP_num_upper_heap + 1
                             ELSE HELP_num_upper_heap
    /\ UNCHANGED <<inputs, outcome, list_partitions, part_i, partition_full, best,
                   cands, Opt_mult, Obj_value, Final_solution>>

\* line 244: current_best_partition[0] with current_best_partition = None
FinalRaise ==
    /\ pc = "final"
    /\ current_best_partition = NoList
    /\ outcome' = "TypeError"
    /\ pc' = "done"
    /\ UNCHANGED <<inputs, list_partitions, part_i, listobj, partition_full, best,
                   arrays, totals, heaps, feas, cands, Opt_mult, Obj_value, Final_solution>>

\* line 265
Clip(mult, i, lower, upper) ==
    PyMin(Num(upper[i]), PyMax(Num(lower[i]), <<mult[1] - b[i] * mult[2], mult[2]>>))

\* lines 243-266
FinalReturn ==
    /\ pc = "final"
    /\ current_best_partition # NoList
    /\ LET p == listobj[current_best_partition]
           lb == FinalLower(p)
           ub == FinalUpper(p)
       IN  /\ lower_bounds' = lb
           /\ upper_bounds' = ub
           /\ lower_breakpoints' = Breakpoints(lb)
           /\ upper_breakpoints' = Breakpoints(ub)
           /\ Final_solution' = [i \in 0..(num_var - 1) |-> Clip(current_best_mult, i, lb, ub)]
    /\ outcome' = "returned"
    /\ pc' = "done"
    /\ UNCHANGED <<inputs, list_partitions, part_i, listobj, partition_full, best,
                   totals, heaps, feas, cands, Opt_mult, Obj_value>>

Next ==
    \/ Start
    \/ NextPartition
    \/ LoopDone
    \/ RejectWindow
    \/ BreakTrunk
    \/ BeginScan
    \/ DiscardLower
    \/ FoundLower
    \/ DiscardUpper
    \/ FoundUpper
    \/ SelectExact
    \/ SelectSolve
    \/ PassLower
    \/ PassUpper
    \/ Track
    \/ Update
    \/ FinalRaise
    \/ FinalReturn

Spec == Init /\ [][Next]_vars

(***************************************************************************)
(* The problem the routine is documented to solve (lines 13-35).           *)
(***************************************************************************)
\* l_{i,j+1} and u_{i,j+1} of the docstring, intervals numbered from 0
IntervalLower(i, j) == IF j = 0 THEN lower_var[i] ELSE lower_fixed[j - 1]

IntervalUpper(i, j) == IF j = num_intervals - 1 THEN upper_var[i] ELSE upper_fixed[j]

\* an interval for every variable
Assignments == [0..(num_var - 1) -> 0..(num_intervals - 1)]

AssignedLower(a) == [i \in 0..(num_var - 1) |-> IntervalLower(i, a[i])]

AssignedUpper(a) == [i \in 0..(num_var - 1) |-> IntervalUpper(i, a[i])]

FeasibleAssignment(a) == Sum(AssignedLower(a)) <= R /\ R <= Sum(AssignedUpper(a))

Feasible == \E a \in Assignments : FeasibleAssignment(a)

\* at least two intervals, one shared bound per gap
WellFormed == num_intervals >= 2 /\ Size(upper_fixed) = Size(lower_fixed)

RAdd(x, y) == <<x[1] * y[2] + y[1] * x[2], x[2] * y[2]>>

RECURSIVE RSumTo(_, _)
RSumTo(x, k) == IF k < 0 THEN Num(0) ELSE RAdd(x[k], RSumTo(x, k - 1))

RSum(x) == RSumTo(x, Size(x) - 1)

\* sum_i (x_i + b_i)^2
ObjectiveOf(x) ==
    RSum([i \in 0..(num_var - 1) |->
            <<(x[i][1] + b[i] * x[i][2]) * (x[i][1] + b[i] * x[i][2]), x[i][2] * x[i][2]>>])

\* x_i = clip(mult - b_i, lower_i, upper_i)
ClipVector(mult, lower, upper) == [i \in 0..(num_var - 1) |-> Clip(mult, i, lower, upper)]

\* the quadratic program of one assignment: its multipliers p/q, 1 <= q <= n
Multipliers(a) ==
    LET lo == AssignedLower(a)
        up == AssignedUpper(a)
        bps == {lo[i] + b[i] : i \in 0..(num_var - 1)} \cup {up[i] + b[i] : i \in 0..(num_var - 1)}
        least == CHOOSE v \in bps : \A w \in bps : v <= w
        most == CHOOSE v \in bps : \A w \in bps : v >= w
    IN  {m \in UNION {{<<p, q>> : p \in (q * least)..(q * most)} : q \in 1..num_var} :
            Equal(RSum(ClipVector(m, lo, up)), Num(R))}

AssignmentOptimum(a) ==
    ObjectiveOf(ClipVector(CHOOSE m \in Multipliers(a) : TRUE, AssignedLower(a), AssignedUpper(a)))

Returned == pc = "done" /\ outcome = "returned"

\* C1: on a feasible instance the objective of the returned vector is the
\* minimum, over all assignments of the variables to intervals, of the
\* optimum of the quadratic program of the assignment.
C1_Optimal ==
    (Returned /\ WellFormed /\ Feasible) =>
        /\ \E a \in Assignments :
              FeasibleAssignment(a) /\ Equal(AssignmentOptimum(a), ObjectiveOf(Final_solution))
        /\ \A a \in Assignments :
              FeasibleAssignment(a) => ~Less(AssignmentOptimum(a), ObjectiveOf(Final_solution))

\* C2: on a feasible instance the returned vector sums to R.
C2_SumIsR ==
    (Returned /\ WellFormed /\ Feasible) => Equal(RSum(Final_solution), Num(R))

\* a segment for every variable, non-decreasing in the index
SegmentAssignments == {a \in Assignments : NonDecreasing(a)}

\* C3: every returned x_i lies in the interval of its segment, for some
\* non-decreasing assignment of the variables to the m segments.
C3_InIntervals ==
    (Returned /\ WellFormed) =>
        \E a \in SegmentAssignments :
            \A i \in 0..(num_var - 1) :
                /\ ~Less(Final_solution[i], Num(IntervalLower(i, a[i])))
                /\ ~Less(Num(IntervalUpper(i, a[i])), Final_solution[i])

\* C4: with R above every possible sum of upper bounds or below every possible
\* sum of lower bounds, the run ends in the outcome "Infeasible".
C4_Infeasible ==
    (pc = "done" /\ WellFormed /\ (R > Sum(upper_var) \/ R < Sum(lower_var))) =>
        outcome = "Infeasible"

IsScenario == inputs = <<Scenario.R, Scenario.b, Scenario.lower_fixed, Scenario.upper_fixed,
                         Scenario.lower_var, Scenario.upper_var>>

\* C5 as stated: on the scenario the routine returns a vector with two
\* variables at the shared upper bound and one at the remainder.
C5_TwoAtBound ==
    (IsScenario /\ pc = "done") =>
        /\ outcome = "returned"
        /\ Cardinality({i \in 0..2 : Equal(Final_solution[i], Num(Scenario.upper_fixed[0]))}) = 2
        /\ Cardinality({i \in 0..2 : Equal(Final_solution[i],
                                 Num(Scenario.R - 2 * Scenario.upper_fixed[0]))}) = 1

\* C5, amended: on the scenario lower_fixed is empty, the trunk enumeration
\* raises ValueError and no vector is returned.
C5_Raises ==
    (IsScenario /\ pc = "done") => (outcome = "ValueError" /\ Final_solution = << >>)

C5_Witness == IsScenario /\ pc = "done" /\ outcome # "running"

\* C6: the multiplier the scan produces solves
\* sum_i clip(Opt_mult - b[i], lower_bounds[i], upper_bounds[i]) = R
\* for the bounds of the current cursor position.
C6_MultiplierSolves ==
    pc = "track" => Equal(RSum(ClipVector(Opt_mult, lower_bounds, upper_bounds)), Num(R))

\* C7: the recorded best partition changes only when a candidate replaces
\* the incumbent, and then it becomes the partition of that candidate.
C7_Snapshot ==
    [][IF pc = "track" /\ Less(Obj_value, current_best_obj)
         THEN listobj'[current_best_partition'] = PF
         ELSE current_best_partition # NoList =>
                 listobj'[current_best_partition'] = listobj[current_best_partition]]_vars

\* the segment of variable i under partition p: boundary j is the last index of segment j
SegmentOf(p, i) ==
    IF \E j \in DOMAIN p : i <= p[j]
      THEN CHOOSE j \in DOMAIN p : i <= p[j] /\ \A k \in DOMAIN p : i <= p[k] => j <= k
      ELSE num_intervals - 1

\* lines 69-85 and 209-219: the bounds the sweep holds at partition p
PartitionLower(p) == [i \in 0..(num_var - 1) |-> IntervalLower(i, SegmentOf(p, i))]

PartitionUpper(p) == [i \in 0..(num_var - 1) |-> IntervalUpper(i, SegmentOf(p, i))]

\* the sweep's arrays are those of its partition at every cursor position
SweepUsesPartitionBounds ==
    pc \in {"while", "scan_lower", "scan_upper", "select", "track"} =>
        /\ lower_bounds = PartitionLower(PF)
        /\ upper_bounds = PartitionUpper(PF)

\* C8: the arrays of the final reconstruction are the sweep's bounds of the
\* partition held in the best record.
C8_SameBounds ==
    Returned =>
        /\ lower_bounds = PartitionLower(listobj[current_best_partition])
        /\ upper_bounds = PartitionUpper(listobj[current_best_partition])

\* C9: when the scan finds HELP_resource > R, some variable is free.
C9_SomeFree ==
    (pc = "select" /\ ResourceVsR = "greater") => HELP_var_num_free > 0

\* the variable of the entry lies in the window of the cursor
InWindow(e) == HELP_part_bound < e[2] /\ e[2] <= Cursor

\* C10: a top entry of a variable in the window (after the previous trunk
\* boundary, at or before the cursor) becomes the candidate only with the tag
\* of the window; one that is popped unused leaves Bounded, FreeShiftSum and
\* numFree alone; the lower and the upper heap apply the same test.
C10_SameTest ==
    [][/\ (pc = "scan_lower" /\ pc' = "scan_upper" /\ HELP_num_lower_heap > 0
             /\ InWindow(Top(heap_lower_BPs))) => Top(heap_lower_BPs)[3] = 1
       /\ (pc = "scan_upper" /\ pc' = "select" /\ HELP_num_upper_heap > 0
             /\ InWindow(Top(heap_upper_BPs))) => Top(heap_upper_BPs)[3] = 1
       /\ (pc \in {"scan_lower", "scan_upper"} /\ pc' = pc) =>
             UNCHANGED <<HELP_var_Bounded, HELP_var_Free, HELP_var_num_free>>]_vars

====
